---- MODULE Spec2Model ----
(***************************************************************************)
(* A model of the Relay agent core of go-relay:                            *)
(*   relay/relay.go                 the Relay supervisor, its control      *)
(*                                  channel, bundle catalog and timers     *)
(*   relay/worker/output_parser.go  parseOutput and its marker callbacks   *)
(*   relay/worker (executeCommand)  the execution pipeline of a worker     *)
(*                                                                         *)
(* Text is modelled as a sequence of fragments.  Text that the code scans  *)
(* (stdout, stderr) is a sequence of one-character strings; a constant     *)
(* message of the code is a single fragment.                               *)
(***************************************************************************)
EXTENDS Integers, Sequences, FiniteSets, TLC

VARIABLES
  state,         \* r.state
  control,       \* r.control, the buffered control channel (FIFO)
  bundles,       \* r.bundles, name -> bundle
  bundlesHash,   \* r.bundlesHash
  announce,      \* r.announce
  hasStarted,    \* r.hasStarted
  bus,           \* r.Bus: "nil", "connected" or "halted"
  queue,         \* r.workQueue: [open, items]
  coordinator,   \* r.coordinator, the counter of the Relay's own WaitGroup
  workers,       \* worker goroutines, counted by position
  refreshTimer,  \* r.refreshTimer: "nil", "pending" or "fired"
  timers,        \* refresh timers and callbacks not referenced by r.refreshTimer
  mainPc,        \* the caller of Start and Stop
  loopPc,        \* the runLoop goroutine
  env,           \* what the environment may still do (bounded)
  published,     \* messages handed to Bus.Publish and not yet taken by the Controller
  hist,          \* history of the last catalog and supervisor steps
  execIn,        \* input of executeCommand: payload and engine behaviour
  response,      \* the response executeCommand built
  parseIn,       \* input of parseOutput
  parsed,        \* the response parseOutput filled in
  bundleLock,    \* r.bundleLock
  writer,        \* a goroutine calling UpdateBundleList
  reader,        \* a goroutine calling GetBundle and BundleNames
  catalogs       \* history: the maps that have been r.bundles

vars == <<state, control, bundles, bundlesHash, announce, hasStarted, bus, queue,
          coordinator, workers, refreshTimer, timers, mainPc, loopPc, env,
          published, hist, execIn, response, parseIn, parsed,
          bundleLock, writer, reader, catalogs>>

relayVars == <<state, control, bundles, bundlesHash, announce, hasStarted, bus, queue,
               coordinator, workers, refreshTimer, timers, mainPc, loopPc, env, hist>>

-----------------------------------------------------------------------------
(* Text helpers                                                            *)

NL == "\n"
SP == " "

\* strings.TrimSuffix(s, "\n")
TrimSuffixNL(s) ==
  IF Len(s) > 0 /\ s[Len(s)] = NL THEN SubSeq(s, 1, Len(s) - 1) ELSE s

\* index of the first "\n" of s, 0 when there is none
IndexNL(s) ==
  IF \E i \in 1..Len(s) : s[i] = NL
  THEN CHOOSE i \in 1..Len(s) : s[i] = NL /\ \A j \in 1..(i - 1) : s[j] # NL
  ELSE 0

\* strings.Split(s, "\n"): always at least one element
RECURSIVE SplitNL(_)
SplitNL(s) ==
  LET i == IndexNL(s)
  IN IF i = 0 THEN <<s>>
     ELSE <<SubSeq(s, 1, i - 1)>> \o SplitNL(SubSeq(s, i + 1, Len(s)))

\* strings.Join(lines, "\n")
RECURSIVE JoinNL(_)
JoinNL(lines) ==
  IF lines = <<>> THEN <<>>
  ELSE IF Len(lines) = 1 THEN lines[1]
  ELSE lines[1] \o <<NL>> \o JoinNL(Tail(lines))

\* strings.Trim(s, " ")
RECURSIVE TrimLeftSP(_)
TrimLeftSP(s) == IF s # <<>> /\ Head(s) = SP THEN TrimLeftSP(Tail(s)) ELSE s
RECURSIVE TrimRightSP(_)
TrimRightSP(s) ==
  IF s # <<>> /\ s[Len(s)] = SP THEN TrimRightSP(SubSeq(s, 1, Len(s) - 1)) ELSE s
TrimSP(s) == TrimRightSP(TrimLeftSP(s))

HasPrefix(s, p) == Len(s) >= Len(p) /\ SubSeq(s, 1, Len(p)) = p

-----------------------------------------------------------------------------
(* relay/worker/output_parser.go                                           *)

\* the zero value of messages.ExecutionResponse
\* Body is nil, the raw text (tag "string"), a decoded JSON number (tag "json", in
\* text) or []map[string][]string{{"body": lines}} (tag "list")
NilBody == [tag |-> "nil", lines |-> <<>>, text |-> <<>>]
ZeroResponse ==
  [Status |-> <<>>, StatusMessage |-> <<>>, Template |-> <<>>,
   IsJSON |-> FALSE, Body |-> NilBody]

NoError == [nil |-> TRUE, msg |-> <<>>]
ErrorOf(m) == [nil |-> FALSE, msg |-> m]

\* the keys and values of the map outputParsers; exact marks a pattern ending in $
PfxDebug == <<"C","O","G","C","M","D","_","D","E","B","U","G",":">>
PfxInfo == <<"C","O","G","C","M","D","_","I","N","F","O",":">>
PfxWarn == <<"C","O","G","C","M","D","_","W","A","R","N",":">>
PfxErr == <<"C","O","G","C","M","D","_","E","R","R",":">>
PfxError == <<"C","O","G","C","M","D","_","E","R","R","O","R",":">>
PfxTemplate == <<"C","O","G","_","T","E","M","P","L","A","T","E",":">>
TxtJSON == <<"J","S","O","N">>
outputParsers ==
  { [text |-> PfxDebug, exact |-> FALSE, cb |-> "writeToLog"],
    [text |-> PfxInfo, exact |-> FALSE, cb |-> "writeToLog"],
    [text |-> PfxWarn, exact |-> FALSE, cb |-> "writeToLog"],
    [text |-> PfxErr, exact |-> FALSE, cb |-> "writeToLog"],
    [text |-> PfxError, exact |-> FALSE, cb |-> "writeToLog"],
    [text |-> PfxTemplate, exact |-> FALSE, cb |-> "extractTemplate"],
    [text |-> TxtJSON, exact |-> TRUE, cb |-> "flagJSON"] }

\* the patterns without their "^": a match anywhere in the line
MatchStringUnanchored(re, line) ==
  \E i \in 0..(Len(line) - Len(re.text)) :
     /\ SubSeq(line, i + 1, i + Len(re.text)) = re.text
     /\ re.exact => Len(line) = i + Len(re.text)

\* re.MatchString(line) for the anchored patterns above; a line holds no "\n"
MatchString(re, line) ==
  IF re.exact THEN line = re.text ELSE HasPrefix(line, re.text)

\* re.Split(line, 2) when re matches: the text before the match (empty, the
\* match is anchored at the start) and the text after it
ReSplit2(re, line) ==
  << <<>>, SubSeq(line, Len(re.text) + 1, Len(line)) >>

\* The parse state threaded through the callbacks: the response, the log
\* entries written, and the retained lines.
writeToLog(line, ps) ==
  IF Len(line) < 2 THEN ps
  ELSE LET message == TrimSP(line[2])
           level ==
             IF line[1] = <<"D","E","B","U","G",":">> THEN "debug"
             ELSE IF line[1] = <<"W","A","R","N",":">> THEN "warn"
             ELSE IF line[1] = <<"E","R","R",":">> THEN "error"
             ELSE IF line[1] = <<"E","R","R","O","R",":">> THEN "error"
             ELSE "info"
       IN [ps EXCEPT !.logs = Append(@, [level |-> level, message |-> message])]

extractTemplate(line, ps) ==
  IF Len(line) < 2 THEN ps
  ELSE [ps EXCEPT !.resp.Template = TrimSP(line[2])]

flagJSON(line, ps) == [ps EXCEPT !.resp.IsJSON = TRUE]

Callback(cb, line, ps) ==
  IF cb = "writeToLog" THEN writeToLog(line, ps)
  ELSE IF cb = "extractTemplate" THEN extractTemplate(line, ps)
  ELSE flagJSON(line, ps)

\* the loop over the lines of stdout (output_parser.go:35-48).  The map is
\* ranged over in an unspecified order and the first match wins; the patterns
\* are pairwise exclusive, so the choice is unique.
RECURSIVE parseLines(_, _)
parseLines(lines, ps) ==
  IF lines = <<>> THEN ps
  ELSE LET line == Head(lines)
           ms == {re \in outputParsers : MatchString(re, line)}
       IN IF ms # {}
          THEN LET re == CHOOSE r \in ms : TRUE
               IN parseLines(Tail(lines), Callback(re.cb, ReSplit2(re, line), ps))
          ELSE parseLines(Tail(lines), [ps EXCEPT !.retained = Append(@, line)])

\* json.Decoder.Decode with UseNumber, for the texts of this model: optional
\* white space, then one number; what follows a complete value is left unread.
Digits == {"0", "1", "2", "3", "4", "5", "6", "7", "8", "9"}
JSONSpace == {SP, NL}
RECURSIVE SkipSpace(_)
SkipSpace(s) == IF s # <<>> /\ Head(s) \in JSONSpace THEN SkipSpace(Tail(s)) ELSE s
RECURSIVE DigitPrefix(_)
DigitPrefix(s) ==
  IF s # <<>> /\ Head(s) \in Digits THEN <<Head(s)>> \o DigitPrefix(Tail(s)) ELSE <<>>
JSONDecode(text) ==
  LET t == SkipSpace(text)
      num == IF t # <<>> /\ Head(t) = "0" THEN <<"0">> ELSE DigitPrefix(t)
      rest == SubSeq(t, Len(num) + 1, Len(t))
  IN IF num = <<>> THEN [ok |-> FALSE, value |-> <<>>]
     ELSE IF rest = <<>> \/ Head(rest) \in JSONSpace THEN [ok |-> TRUE, value |-> num]
     ELSE [ok |-> FALSE, value |-> <<>>]

InvalidJSONMessage == <<"Command returned invalid JSON.">>

\* output_parser.go:56-77, the body of an ok response
bodyOf(resp, retained) ==
  IF resp.IsJSON
  THEN LET d == JSONDecode(JoinNL(retained))
       IN IF ~d.ok
          THEN [resp EXCEPT !.Status = <<"error">>, !.StatusMessage = InvalidJSONMessage]
          ELSE [resp EXCEPT !.Body = [tag |-> "json", lines |-> <<>>, text |-> d.value]]
  ELSE IF Len(retained) > 0
       THEN [resp EXCEPT !.Body = [tag |-> "list", lines |-> retained, text |-> <<>>]]
       ELSE resp

\* parseOutput(result, err, resp, req): the response and the log entries
parseOutput(result, err, resp) ==
  IF ~err.nil
  THEN [resp |-> [resp EXCEPT !.Status = <<"error">>, !.StatusMessage = err.msg],
        logs |-> <<>>]
  ELSE LET ps0 == [resp |-> resp, logs |-> <<>>, retained |-> <<>>]
           ps == IF Len(result.Stdout) > 0
                 THEN parseLines(SplitNL(TrimSuffixNL(result.Stdout)), ps0)
                 ELSE ps0
       IN IF Len(result.Stderr) > 0
          THEN [resp |-> [ps.resp EXCEPT !.Status = <<"error">>,
                                         !.StatusMessage = result.Stderr],
                logs |-> ps.logs]
          ELSE [resp |-> bodyOf([ps.resp EXCEPT !.Status = <<"ok">>], ps.retained),
                logs |-> ps.logs]

-----------------------------------------------------------------------------
(* relay/relay.go: the bundle catalog                                      *)

\* the bundle names of the model, in the order sort.Strings gives them
NameOrder == <<"dock", "echo">>
BundleNameSet == {NameOrder[i] : i \in 1..Len(NameOrder)}
BundleOf(n) == [name |-> n, kind |-> IF n = "dock" THEN "docker" ELSE "native"]
MapOf(ks) == [n \in ks |-> BundleOf(n)]
\* the maps a bundle-list reply can carry
BundleMaps == {MapOf({}), MapOf({"echo"}), MapOf({"dock", "echo"})}
\* the reply of a Controller whose assignment for this Relay never changes
FixedMaps == {MapOf({"echo"})}

\* a uint64 as four 16-bit limbs, most significant first
ZeroHash == <<0, 0, 0, 0>>
\* fnv.New64(): the FNV-1 offset basis 0xcbf29ce484222325
fnvNew64 == <<52210, 40164, 33826, 8997>>
\* h.Write(b): the bytes go into the hash state
fnvWrite(h, b) ==
  [h EXCEPT ![4] = (@ * 403 + (IF b = "dock" THEN 100 ELSE 101)) % 65536]

\* h.Sum(b) appends the current digest to b and returns the slice; the
\* hash state h is left as it was
fnvSum(h, b) == h
fnvSum64(h) == h

SortedKeys(bs) == SelectSeq(NameOrder, LAMBDA n : n \in DOMAIN bs)

RECURSIVE sumKeys(_, _)
sumKeys(h, keys) ==
  IF keys = <<>> THEN h ELSE sumKeys(fnvSum(h, Head(keys)), Tail(keys))

computeBundleHash(bs) == fnvSum64(sumKeys(fnvNew64, SortedKeys(bs)))

\* UpdateBundleList on a catalog [bundles, bundlesHash, announce]
UpdateBundleList(cat, newBundles) ==
  LET newBundlesHash == computeBundleHash(newBundles)
  IN IF cat.bundlesHash # newBundlesHash
     THEN [bundles |-> newBundles, bundlesHash |-> newBundlesHash, announce |-> TRUE]
     ELSE cat

GetBundle(bs, name) ==
  IF name \in DOMAIN bs THEN [nil |-> FALSE, bundle |-> bs[name]]
  ELSE [nil |-> TRUE, bundle |-> BundleOf("")]

BundleNames(bs) == DOMAIN bs

\* the catalog of New()
NewCatalog == [bundles |-> MapOf({}), bundlesHash |-> ZeroHash, announce |-> FALSE]

-----------------------------------------------------------------------------
(* relay/worker: executeCommand                                            *)

\* json.Unmarshal(incoming.Payload, request): a payload is JSON or not, and
\* a JSON payload carries some of the fields; a field it lacks decodes to ""
Field(fields, k) == IF k \in DOMAIN fields THEN fields[k] ELSE ""
Unmarshal(payload) ==
  IF ~payload.json
  THEN [err |-> TRUE, BundleName |-> "", ReplyTo |-> ""]
  ELSE [err |-> FALSE,
        BundleName |-> Field(payload.fields, "bundle_name"),
        ReplyTo |-> Field(payload.fields, "reply_to")]

\* engineForBundle: the engine of the bundle's kind, or the error of its
\* constructor (eng.newErr is what the constructor returns here)
engineForBundle(bundle, eng) ==
  IF bundle.kind = "docker"
  THEN [engine |-> "docker", err |-> eng.newErr]
  ELSE [engine |-> "native", err |-> eng.newErr]

\* the response of executeCommand for a decoded request
responseOf(request, bs, eng) ==
  LET b == GetBundle(bs, request.BundleName)
  IN IF b.nil
     THEN [ZeroResponse EXCEPT
             !.Status = <<"error">>,
             !.StatusMessage = <<"Unknown command bundle ", request.BundleName>>]
     ELSE LET e == engineForBundle(b.bundle, eng)
          IN IF ~e.err.nil
             THEN [ZeroResponse EXCEPT !.Status = <<"error">>,
                                       !.StatusMessage = e.err.msg]
             ELSE IF ~eng.err.nil
             THEN [ZeroResponse EXCEPT !.Status = <<"error">>,
                                       !.StatusMessage = eng.err.msg]
             ELSE IF Len(eng.result.Stderr) > 0
             THEN [ZeroResponse EXCEPT !.Status = <<"error">>,
                                       !.StatusMessage = eng.result.Stderr]
             ELSE [ZeroResponse EXCEPT
                     !.Status = <<"ok">>,
                     !.Body = [tag |-> "string", lines |-> <<>>,
                               text |-> eng.result.Stdout]]

\* an executeCommand that returns without a reply when the bundle is unknown
executeCommandSilentOnUnknown(payload, bs, eng) ==
  LET request == Unmarshal(payload)
  IN IF request.err \/ GetBundle(bs, request.BundleName).nil
     THEN [publish |-> FALSE, topic |-> "", response |-> ZeroResponse]
     ELSE [publish |-> TRUE, topic |-> request.ReplyTo,
           response |-> responseOf(request, bs, eng)]

\* executeCommand(incoming): what it publishes, if anything
executeCommand(payload, bs, eng) ==
  LET request == Unmarshal(payload)
  IN IF request.err
     THEN [publish |-> FALSE, topic |-> "", response |-> ZeroResponse]
     ELSE [publish |-> TRUE, topic |-> request.ReplyTo,
           response |-> responseOf(request, bs, eng)]

-----------------------------------------------------------------------------
(* relay/relay.go: the Relay supervisor                                    *)
(*                                                                         *)
(* The configuration modelled enables the native engine only               *)
(* (DockerEnabled() = false): Start's verification passes, setDockerTimer  *)
(* is never reached and r.dockerTimer stays nil.                           *)

\* r.coordinator counts the runLoop goroutine only: startWorkers hands each
\* worker a copy of the WaitGroup (Worker takes sync.WaitGroup by value), and
\* the link is taken not to add itself to the one it is given.

\* make(chan ControlCommand, 2)
ControlCap == 2
\* r.Config.MaxConcurrent
MaxConcurrent == 1
\* messages Bus.Publish holds before it blocks the publisher
MaxWire == 1
\* what the environment does at most: broker disconnects, calls of
\* UpdateBundles from outside the Relay, calls of Stop
MaxDisconnects == 1
MaxUpdates == 1
MaxStops == 1

WorkerCount == MaxConcurrent + 2
QueueCap == MaxConcurrent * 2

lockVars == <<bundleLock, writer, reader, catalogs>>
pureVars == <<execIn, response, parseIn, parsed, bundleLock, writer, reader, catalogs>>

InfoTopic == "bot/relays/info"
DiscoveryTopic == "bus.RelayDiscoveryTopic"
Message(topic, names, resp) == [topic |-> topic, names |-> names, response |-> resp]
ListBundlesMessage == Message(InfoTopic, {}, ZeroResponse)
Announcement(names) == Message(DiscoveryTopic, names, ZeroResponse)

Catalog == [bundles |-> bundles, bundlesHash |-> bundlesHash, announce |-> announce]

\* a panic in any goroutine ends the process: no goroutine takes a step after it
Crashed == loopPc = "panicked"

\* r.control <- cmd
Send(cmd) == Len(control) < ControlCap /\ control' = Append(control, cmd)

\* r.Bus.Publish(topic, raw) on a link that is not nil: a connected link takes
\* the message (blocking while it is full), a halted or lost link drops it
Publish(msg) ==
  IF bus = "connected"
  THEN Len(published) < MaxWire /\ published' = Append(published, msg)
  ELSE published' = published

\* startWorkers: MaxConcurrent + 2 goroutines, each given r.workQueue and a
\* copy of r.coordinator
startWorkers(w) == [w EXCEPT !.idle = @ + WorkerCount]

\* connectToCog: bus.NewLink and link.Run succeed and r.Bus is the new link,
\* or one of them fails and r.Bus is left as it was
connectToCog(b) == {"connected", b}

\* Bus.Halt() when r.Bus != nil
Halt(b) == IF b = "nil" THEN "nil" ELSE "halted"

\* workQueue.Stop(): Enqueue rejects from now on, and Dequeue returns "closed"
\* once the queue is drained
QueueStop(q) == [q EXCEPT !.open = FALSE]
\* workQueue.Start(): empty and usable again.  The workers still waiting in
\* Dequeue on the stopped queue have been given "closed" and are gone.
QueueStart(q) == [open |-> TRUE, items |-> 0]
QueueStartWorkers(w) == [w EXCEPT !.idle = 0]

\* stopTimers, setRefreshTimer on [ref |-> r.refreshTimer, t |-> the other timers]
stopTimers(ref) == "nil"
setRefreshTimer(ref, t) ==
  [ref |-> "pending",
   t |-> IF ref = "pending" THEN [t EXCEPT !.orphans = @ + 1] ELSE t]

\* ---- the caller of Start and Stop ----

\* Start(worker), lines 89-102
Start ==
  /\ ~Crashed
  /\ mainPc = "new"
  /\ state' = "Starting"
  /\ workers' = startWorkers(workers)
  /\ \E b \in connectToCog(bus) : bus' = b
  /\ loopPc' = "begin"
  /\ mainPc' = "running"
  /\ UNCHANGED <<control, bundles, bundlesHash, announce, hasStarted, queue,
                 coordinator, refreshTimer, timers, env, published, hist>>
  /\ UNCHANGED pureVars

\* a Stop that does not test r.state
StopBeginUnconditional ==
  /\ ~Crashed
  /\ mainPc \in {"new", "running", "stopped"}
  /\ env.stops > 0
  /\ env' = [env EXCEPT !.stops = @ - 1]
  /\ refreshTimer' = stopTimers(refreshTimer)
  /\ bus' = Halt(bus)
  /\ queue' = QueueStop(queue)
  /\ mainPc' = "stopSend"
  /\ UNCHANGED <<state, control, bundles, bundlesHash, announce, hasStarted,
                 coordinator, workers, timers, loopPc, published, hist>>
  /\ UNCHANGED pureVars

\* Stop(), lines 105-111: the test of r.state, then stopTimers, Bus.Halt and
\* workQueue.Stop
StopBegin ==
  /\ ~Crashed
  /\ mainPc \in {"new", "running", "stopped"}
  /\ env.stops > 0
  /\ env' = [env EXCEPT !.stops = @ - 1]
  /\ IF state # "Stopped"
     THEN /\ refreshTimer' = stopTimers(refreshTimer)
          /\ bus' = Halt(bus)
          /\ queue' = QueueStop(queue)
          /\ mainPc' = "stopSend"
          /\ hist' = hist
     ELSE /\ mainPc' = mainPc
          /\ hist' = [hist EXCEPT !.stopNoop = mainPc]
          /\ UNCHANGED <<refreshTimer, bus, queue>>
  /\ UNCHANGED <<state, control, bundles, bundlesHash, announce, hasStarted,
                 coordinator, workers, timers, loopPc, published>>
  /\ UNCHANGED pureVars

\* Stop(), line 112
StopSend ==
  /\ ~Crashed
  /\ mainPc = "stopSend"
  /\ Send("Stop")
  /\ mainPc' = "stopWait"
  /\ UNCHANGED <<state, bundles, bundlesHash, announce, hasStarted, bus, queue,
                 coordinator, workers, refreshTimer, timers, loopPc, env,
                 published, hist>>
  /\ UNCHANGED pureVars

\* Stop(), line 113: r.coordinator.Wait()
StopWait ==
  /\ ~Crashed
  /\ mainPc = "stopWait"
  /\ coordinator = 0
  /\ mainPc' = "stopSet"
  /\ UNCHANGED <<state, control, bundles, bundlesHash, announce, hasStarted, bus,
                 queue, coordinator, workers, refreshTimer, timers, loopPc, env,
                 published, hist>>
  /\ UNCHANGED pureVars

\* Stop(), line 114
StopSetState ==
  /\ ~Crashed
  /\ mainPc = "stopSet"
  /\ state' = "Stopped"
  /\ mainPc' = "stopped"
  /\ UNCHANGED <<control, bundles, bundlesHash, announce, hasStarted, bus, queue,
                 coordinator, workers, refreshTimer, timers, loopPc, env,
                 published, hist>>
  /\ UNCHANGED pureVars

\* ---- the runLoop goroutine ----

Handled(cmd) == [hist EXCEPT !.lastCmd = cmd, !.lastState = state]

\* runLoop, line 252: r.coordinator.Add(1)
LoopBegin ==
  /\ ~Crashed
  /\ loopPc = "begin"
  /\ coordinator' = coordinator + 1
  /\ loopPc' = "recv"
  /\ UNCHANGED <<state, control, bundles, bundlesHash, announce, hasStarted, bus,
                 queue, workers, refreshTimer, timers, mainPc, env, published, hist>>
  /\ UNCHANGED pureVars

\* runLoop, lines 255-257: RelayStop is received, the loop returns and the
\* deferred r.coordinator.Done() runs
LoopStop ==
  /\ ~Crashed
  /\ loopPc = "recv"
  /\ control # <<>> /\ Head(control) = "Stop"
  /\ control' = Tail(control)
  /\ coordinator' = coordinator - 1
  /\ loopPc' = "done"
  /\ hist' = Handled("Stop")
  /\ UNCHANGED <<state, bundles, bundlesHash, announce, hasStarted, bus, queue,
                 workers, refreshTimer, timers, mainPc, env, published>>
  /\ UNCHANGED pureVars

\* a teardown that also empties the catalog
handleRestartTeardownClears ==
  /\ ~Crashed
  /\ loopPc = "recv"
  /\ control # <<>> /\ Head(control) = "Restart"
  /\ control' = Tail(control)
  /\ bus' = Halt(bus)
  /\ queue' = QueueStop(queue)
  /\ coordinator - 1 = 0
  /\ coordinator' = coordinator - 1
  /\ state' = "Stopped"
  /\ loopPc' = "restartRearm"
  /\ hist' = Handled("Restart")
  /\ bundles' = NewCatalog.bundles
  /\ bundlesHash' = NewCatalog.bundlesHash
  /\ UNCHANGED <<announce, hasStarted, workers, refreshTimer, timers, mainPc, env,
                 published>>
  /\ UNCHANGED pureVars

\* handleRestartCommand, lines 269-275: RelayRestart is received; Halt, Stop of
\* the queue, Done, Wait (the counter is the loop's own 1, so Wait returns),
\* r.state = RelayStopped
handleRestartTeardown ==
  /\ ~Crashed
  /\ loopPc = "recv"
  /\ control # <<>> /\ Head(control) = "Restart"
  /\ control' = Tail(control)
  /\ bus' = Halt(bus)
  /\ queue' = QueueStop(queue)
  /\ coordinator - 1 = 0
  /\ coordinator' = coordinator - 1
  /\ state' = "Stopped"
  /\ loopPc' = "restartRearm"
  /\ hist' = Handled("Restart")
  /\ UNCHANGED <<bundles, bundlesHash, announce, hasStarted, workers, refreshTimer,
                 timers, mainPc, env, published>>
  /\ UNCHANGED pureVars

\* a re-arm that declares the Relay ready at once
handleRestartRearmReady ==
  /\ ~Crashed
  /\ loopPc = "restartRearm"
  /\ coordinator' = coordinator + 1
  /\ state' = "Ready"
  /\ queue' = QueueStart(queue)
  /\ workers' = startWorkers(QueueStartWorkers(workers))
  /\ \E b \in connectToCog(bus) : bus' = b
  /\ loopPc' = "restartSend"
  /\ UNCHANGED <<control, bundles, bundlesHash, announce, hasStarted, refreshTimer,
                 timers, mainPc, env, published, hist>>
  /\ UNCHANGED pureVars

\* handleRestartCommand, lines 278-282
handleRestartRearm ==
  /\ ~Crashed
  /\ loopPc = "restartRearm"
  /\ coordinator' = coordinator + 1
  /\ state' = "Starting"
  /\ queue' = QueueStart(queue)
  /\ workers' = startWorkers(QueueStartWorkers(workers))
  /\ \E b \in connectToCog(bus) : bus' = b
  /\ loopPc' = "restartSend"
  /\ UNCHANGED <<control, bundles, bundlesHash, announce, hasStarted, refreshTimer,
                 timers, mainPc, env, published, hist>>
  /\ UNCHANGED pureVars

\* handleRestartCommand, line 283: the loop sends on its own channel
handleRestartSend ==
  /\ ~Crashed
  /\ loopPc = "restartSend"
  /\ Send("UpdateBundles")
  /\ loopPc' = "recv"
  /\ UNCHANGED <<state, bundles, bundlesHash, announce, hasStarted, bus, queue,
                 coordinator, workers, refreshTimer, timers, mainPc, env,
                 published, hist>>
  /\ UNCHANGED pureVars

\* handleUpdateBundlesCommand, lines 303-322.  r.Bus.DirectiveReplyTo() on a
\* nil r.Bus panics, after the timer has been set.
handleUpdateBundlesCommand ==
  /\ ~Crashed
  /\ loopPc = "recv"
  /\ control # <<>> /\ Head(control) = "UpdateBundles"
  /\ control' = Tail(control)
  /\ LET set == IF state = "Starting"
                THEN setRefreshTimer(refreshTimer, timers)
                ELSE [ref |-> refreshTimer, t |-> timers]
     IN /\ refreshTimer' = set.ref
        /\ timers' = set.t
  /\ IF bus = "nil"
     THEN /\ loopPc' = "panicked"
          /\ UNCHANGED <<state, published>>
     ELSE /\ Publish(ListBundlesMessage)
          /\ state' = "UpdatingBundles"
          /\ loopPc' = "recv"
  /\ hist' = Handled("UpdateBundles")
  /\ UNCHANGED <<bundles, bundlesHash, announce, hasStarted, bus, queue,
                 coordinator, workers, mainPc, env>>
  /\ UNCHANGED pureVars

\* an else branch that finishes the refresh all the same
logBadStateFinishes ==
  /\ state' = "Ready"
  /\ UNCHANGED <<announce, hasStarted, published>>

\* handleUpdateBundlesDone, lines 298-300: the else branch only logs (logBadState)
logBadState ==
  UNCHANGED <<state, announce, hasStarted, published>>

\* handleUpdateBundlesDone, lines 286-301 (announceBundles, lines 328-332)
handleUpdateBundlesDone ==
  /\ ~Crashed
  /\ loopPc = "recv"
  /\ control # <<>> /\ Head(control) = "UpdateBundlesDone"
  /\ control' = Tail(control)
  /\ IF state = "UpdatingBundles"
     THEN /\ IF announce
             THEN /\ bus # "nil"
                  /\ Publish(Announcement(BundleNames(bundles)))
                  /\ announce' = FALSE
                  /\ hist' = [Handled("UpdateBundlesDone") EXCEPT !.changed = FALSE]
             ELSE /\ UNCHANGED <<published, announce>>
                  /\ hist' = Handled("UpdateBundlesDone")
          /\ hasStarted' = TRUE
          /\ state' = "Ready"
     ELSE /\ hist' = Handled("UpdateBundlesDone")
          /\ logBadState
  /\ loopPc' = "recv"
  /\ UNCHANGED <<bundles, bundlesHash, bus, queue, coordinator, workers,
                 refreshTimer, timers, mainPc, env>>
  /\ UNCHANGED pureVars

\* ---- workers (the worker loop is not part of the sources modelled; it
\* ---- dequeues a directive, applies the bundle list and signals the end
\* ---- of the refresh) ----

\* A worker takes a bundle-list reply from the queue, calls UpdateBundleList
\* (lines 144-153) and then FinishedUpdateBundles, whose test of r.state
\* (lines 127-130) either returns false or leads to the send of line 131.
WorkerApply ==
  /\ ~Crashed
  /\ workers.idle > 0
  /\ queue.items > 0
  /\ queue' = [queue EXCEPT !.items = @ - 1]
  /\ \E m \in env.maps :
       LET cat == UpdateBundleList(Catalog, m)
       IN /\ bundles' = cat.bundles
          /\ bundlesHash' = cat.bundlesHash
          /\ announce' = cat.announce
          /\ hist' = [hist EXCEPT !.lastKeys = DOMAIN m,
                                  !.changed = @ \/ (DOMAIN m # hist.lastKeys)]
  /\ workers' = IF state # "UpdatingBundles"
                THEN workers
                ELSE [workers EXCEPT !.idle = @ - 1, !.send = @ + 1]
  /\ UNCHANGED <<state, control, hasStarted, bus, coordinator, refreshTimer,
                 timers, mainPc, loopPc, env, published>>
  /\ UNCHANGED pureVars

\* FinishedUpdateBundles, line 131: r.control <- RelayUpdateBundlesDone
FinishedUpdateBundles ==
  /\ ~Crashed
  /\ workers.send > 0
  /\ Send("UpdateBundlesDone")
  /\ workers' = [workers EXCEPT !.send = @ - 1, !.idle = @ + 1]
  /\ UNCHANGED <<state, bundles, bundlesHash, announce, hasStarted, bus, queue,
                 coordinator, refreshTimer, timers, mainPc, loopPc, env,
                 published, hist>>
  /\ UNCHANGED pureVars

\* the workers waiting in Dequeue find the queue stopped and drained, and return
WorkerExit ==
  /\ ~Crashed
  /\ workers.idle > 0 /\ ~queue.open /\ queue.items = 0
  /\ workers' = [workers EXCEPT !.idle = 0]
  /\ UNCHANGED <<state, control, bundles, bundlesHash, announce, hasStarted, bus,
                 queue, coordinator, refreshTimer, timers, mainPc, loopPc, env,
                 published, hist>>
  /\ UNCHANGED pureVars

\* ---- refresh timers ----

\* a timer set by time.AfterFunc expires and its callback triggerRefresh starts
TimerFire ==
  /\ ~Crashed
  /\ \/ /\ refreshTimer = "pending"
        /\ refreshTimer' = "fired"
        /\ timers' = [timers EXCEPT !.running = @ + 1]
     \/ /\ timers.orphans > 0
        /\ timers' = [timers EXCEPT !.orphans = @ - 1, !.running = @ + 1]
        /\ UNCHANGED refreshTimer
  /\ UNCHANGED <<state, control, bundles, bundlesHash, announce, hasStarted, bus,
                 queue, coordinator, workers, mainPc, loopPc, env, published, hist>>
  /\ UNCHANGED pureVars

\* triggerRefresh, lines 356-359: r.UpdateBundles(), which blocks while the
\* channel is full, then r.setRefreshTimer()
triggerRefresh ==
  /\ ~Crashed
  /\ timers.running > 0
  /\ Send("UpdateBundles")
  /\ LET set == setRefreshTimer(refreshTimer, [timers EXCEPT !.running = @ - 1])
     IN /\ refreshTimer' = set.ref
        /\ timers' = set.t
  /\ UNCHANGED <<state, bundles, bundlesHash, announce, hasStarted, bus, queue,
                 coordinator, workers, mainPc, loopPc, env, published, hist>>
  /\ UNCHANGED pureVars

\* ---- the environment: callers, the broker and the Controller ----

\* UpdateBundles(), lines 120-123, called from outside the Relay
UpdateBundles ==
  /\ ~Crashed
  /\ mainPc # "new"
  /\ env.updates > 0
  /\ Send("UpdateBundles")
  /\ env' = [env EXCEPT !.updates = @ - 1]
  /\ UNCHANGED <<state, bundles, bundlesHash, announce, hasStarted, bus, queue,
                 coordinator, workers, refreshTimer, timers, mainPc, loopPc,
                 published, hist>>
  /\ UNCHANGED pureVars

\* the connected link is lost and the bus calls the DisconnectHandler
BrokerDisconnect ==
  /\ ~Crashed
  /\ bus = "connected"
  /\ env.disconnects > 0
  /\ bus' = "down"
  /\ env' = [env EXCEPT !.disconnects = @ - 1, !.notifying = @ + 1,
                        !.lostIn = state]
  /\ UNCHANGED <<state, control, bundles, bundlesHash, announce, hasStarted, queue,
                 coordinator, workers, refreshTimer, timers, mainPc, loopPc,
                 published, hist>>
  /\ UNCHANGED pureVars

\* disconnected(err), lines 208-211
disconnected ==
  /\ ~Crashed
  /\ env.notifying > 0
  /\ Send("Restart")
  /\ env' = [env EXCEPT !.notifying = @ - 1]
  /\ UNCHANGED <<state, bundles, bundlesHash, announce, hasStarted, bus, queue,
                 coordinator, workers, refreshTimer, timers, mainPc, loopPc,
                 published, hist>>
  /\ UNCHANGED pureVars

\* handleMessage, lines 213-222: Enqueue on the work queue, which rejects when
\* it is stopped or full
handleMessage(q) ==
  IF q.open /\ q.items < QueueCap THEN [q EXCEPT !.items = @ + 1] ELSE q

\* the Controller takes the oldest published message; to ListBundles it
\* replies with a bundle list, which reaches handleMessage while the link is up
ControllerTake ==
  /\ ~Crashed
  /\ published # <<>>
  /\ published' = Tail(published)
  /\ queue' = IF Head(published).topic = InfoTopic /\ bus = "connected"
              THEN handleMessage(queue)
              ELSE queue
  /\ UNCHANGED <<state, control, bundles, bundlesHash, announce, hasStarted, bus,
                 coordinator, workers, refreshTimer, timers, mainPc, loopPc, env,
                 hist>>
  /\ UNCHANGED pureVars

-----------------------------------------------------------------------------
(* The specification of the supervisor                                     *)

IdleExec ==
  [stage |-> "none",
   payload |-> [json |-> FALSE, fields |-> MapOf({})],
   eng |-> [newErr |-> NoError, err |-> NoError,
            result |-> [Stdout |-> <<>>, Stderr |-> <<>>]]]
IdleParse ==
  [lines |-> <<>>, terminated |-> FALSE, err |-> NoError,
   result |-> [Stdout |-> <<>>, Stderr |-> <<>>]]
IdleParsed == [done |-> FALSE, resp |-> ZeroResponse, logs |-> <<>>]

\* New(relayConfig), lines 75-85
New ==
  /\ state = "Stopped"
  /\ control = <<>>
  /\ bundles = NewCatalog.bundles
  /\ bundlesHash = NewCatalog.bundlesHash
  /\ announce = NewCatalog.announce
  /\ hasStarted = FALSE
  /\ bus = "nil"
  /\ queue = [open |-> TRUE, items |-> 0]
  /\ coordinator = 0
  /\ workers = [idle |-> 0, send |-> 0]
  /\ refreshTimer = "nil"
  /\ timers = [orphans |-> 0, running |-> 0]
  /\ loopPc = "none"
  /\ published = <<>>
  /\ hist = [lastKeys |-> {}, changed |-> FALSE, lastCmd |-> "none",
             lastState |-> "Stopped", stopNoop |-> "none"]

\* sync.RWMutex, zero value: held by no goroutine
UnlockedRWMutex == [writer |-> FALSE, readers |-> 0]
NoResult == [keys |-> {}, blanks |-> 0, bundle |-> GetBundle(MapOf({}), "")]
IdleWriter == [pc |-> "idle", arg |-> MapOf({}), left |-> 0]
IdleReader == [pc |-> "idle", name |-> "", count |-> 0, result |-> NoResult, left |-> 0]

LockIdle ==
  /\ bundleLock = UnlockedRWMutex
  /\ writer = IdleWriter
  /\ reader = IdleReader
  /\ catalogs = {}

PureIdle ==
  /\ execIn = IdleExec
  /\ response = ZeroResponse
  /\ parseIn = IdleParse
  /\ parsed = IdleParsed
  /\ LockIdle

\* The supervisor with everything around it: a caller that starts and stops
\* it, the broker that loses the link, the timers, and a Controller whose
\* replies always carry the same bundle list.
Init ==
  /\ New
  /\ mainPc = "new"
  /\ env = [disconnects |-> MaxDisconnects, updates |-> MaxUpdates,
            stops |-> MaxStops, notifying |-> 0, lostIn |-> "none",
            maps |-> FixedMaps]
  /\ PureIdle

MainNext == Start \/ StopBegin \/ StopSend \/ StopWait \/ StopSetState
LoopNext ==
  \/ LoopBegin \/ LoopStop
  \/ handleRestartTeardown \/ handleRestartRearm \/ handleRestartSend
  \/ handleUpdateBundlesCommand \/ handleUpdateBundlesDone
WorkerNext == WorkerApply \/ FinishedUpdateBundles \/ WorkerExit
TimerNext == TimerFire \/ triggerRefresh
EnvNext == UpdateBundles \/ BrokerDisconnect \/ disconnected \/ ControllerTake

Next == MainNext \/ LoopNext \/ WorkerNext \/ TimerNext \/ EnvNext

Spec == Init /\ [][Next]_vars

\* The scheduler runs every goroutine that can take a step, timers expire,
\* and the Controller keeps taking what is published.  A goroutine blocked in
\* a send waits in the channel's FIFO queue of senders, so a send that can
\* proceed again and again does proceed (strong fairness).  Calls from outside
\* (Stop, UpdateBundles) and the loss of the link are not forced to happen.
Fairness ==
  /\ SF_vars(StopSend)
  /\ WF_vars(StopWait \/ StopSetState)
  /\ WF_vars(LoopBegin \/ LoopStop \/ handleRestartTeardown \/ handleRestartRearm)
  /\ WF_vars(handleUpdateBundlesCommand \/ handleUpdateBundlesDone)
  /\ SF_vars(handleRestartSend)
  /\ WF_vars(WorkerApply \/ WorkerExit)
  /\ SF_vars(FinishedUpdateBundles)
  /\ WF_vars(TimerFire)
  /\ SF_vars(triggerRefresh)
  /\ SF_vars(disconnected)
  /\ WF_vars(ControllerTake)

FairSpec == Spec /\ Fairness

\* The refresh cycle alone: the Relay is started and never stopped, the link
\* is never lost, and the Controller's replies vary.
InitCatalog ==
  /\ New
  /\ mainPc = "new"
  /\ env = [disconnects |-> 0, updates |-> MaxUpdates, stops |-> 0,
            notifying |-> 0, lostIn |-> "none", maps |-> BundleMaps]
  /\ PureIdle

NextCatalog ==
  \/ Start \/ LoopBegin
  \/ handleUpdateBundlesCommand \/ handleUpdateBundlesDone
  \/ WorkerApply \/ FinishedUpdateBundles
  \/ TimerFire \/ triggerRefresh
  \/ UpdateBundles \/ ControllerTake

SpecCatalog == InitCatalog /\ [][NextCatalog]_vars

\* The loss of the link and the restart alone: the Relay is started and never
\* stopped, under the fairness of the supervisor.
InitRecover ==
  /\ New
  /\ mainPc = "new"
  /\ env = [disconnects |-> MaxDisconnects, updates |-> MaxUpdates, stops |-> 0,
            notifying |-> 0, lostIn |-> "none", maps |-> FixedMaps]
  /\ PureIdle

NextRecover ==
  \/ Start \/ LoopBegin
  \/ handleRestartTeardown \/ handleRestartRearm \/ handleRestartSend
  \/ handleUpdateBundlesCommand \/ handleUpdateBundlesDone
  \/ WorkerNext \/ TimerNext \/ EnvNext

FairSpecRecover == InitRecover /\ [][NextRecover]_vars /\ Fairness

\* Stop called again and again: the Relay is started, refreshed and stopped,
\* and the link is never lost.
MaxStopCalls == 2

InitStop ==
  /\ New
  /\ mainPc = "new"
  /\ env = [disconnects |-> 0, updates |-> MaxUpdates, stops |-> MaxStopCalls,
            notifying |-> 0, lostIn |-> "none", maps |-> FixedMaps]
  /\ PureIdle

NextStop ==
  \/ MainNext
  \/ LoopBegin \/ LoopStop
  \/ handleUpdateBundlesCommand \/ handleUpdateBundlesDone
  \/ WorkerNext \/ TimerNext
  \/ UpdateBundles \/ ControllerTake

SpecStop == InitStop /\ [][NextStop]_vars

-----------------------------------------------------------------------------
(* The specification of parseOutput: every input is tried                  *)

\* lines a command may print
MaxLines == 2

TxtA == <<"a">>
\* marker lines, and lines that are none: empty, plain, a marker that does
\* not start the line, "JSON" with more text, a marker without its colon
LineChoices ==
  { [marker |-> TRUE, text |-> PfxDebug \o <<SP>> \o TxtA],
    [marker |-> TRUE, text |-> PfxInfo],
    [marker |-> TRUE, text |-> PfxWarn \o TxtA],
    [marker |-> TRUE, text |-> PfxErr \o <<SP>> \o TxtA],
    [marker |-> TRUE, text |-> PfxError \o <<SP>> \o TxtA],
    [marker |-> TRUE, text |-> PfxTemplate \o <<SP, "t", SP>>],
    [marker |-> TRUE, text |-> TxtJSON],
    [marker |-> FALSE, text |-> <<>>],
    [marker |-> FALSE, text |-> TxtA],
    [marker |-> FALSE, text |-> <<"1">>],
    [marker |-> FALSE, text |-> TxtA \o PfxInfo],
    [marker |-> FALSE, text |-> TxtJSON \o <<SP>>],
    [marker |-> FALSE, text |-> SubSeq(PfxErr, 1, Len(PfxErr) - 1)] }

SeqsUpTo(S, n) == UNION {[1..k -> S] : k \in 0..n}

\* the text a command prints for these lines; the last line may lack its "\n"
RECURSIVE TextOf(_)
TextOf(ls) ==
  IF ls = <<>> THEN <<>> ELSE Head(ls).text \o <<NL>> \o TextOf(Tail(ls))
StdoutOf(ls, terminated) ==
  IF terminated THEN TextOf(ls) ELSE TrimSuffixNL(TextOf(ls))

\* a line without "\n" at the end of the text is a line only if it is not empty
WellFormed(ls, terminated) ==
  terminated \/ (ls # <<>> /\ ls[Len(ls)].text # <<>>)

TxtBoom == <<"b", "o", "o", "m">>
Stderrs == {<<>>, TxtBoom}
EngineErrors == {NoError, ErrorOf(<<"exit status 1">>)}

ParseInputs ==
  { [lines |-> ls, terminated |-> t, err |-> e,
     result |-> [Stdout |-> StdoutOf(ls, t), Stderr |-> se]] :
    ls \in SeqsUpTo(LineChoices, MaxLines),
    t \in BOOLEAN, se \in Stderrs, e \in EngineErrors }

InitParse ==
  /\ New
  /\ mainPc = "new"
  /\ env = [disconnects |-> 0, updates |-> 0, stops |-> 0, notifying |-> 0,
            lostIn |-> "none", maps |-> FixedMaps]
  /\ execIn = IdleExec
  /\ response = ZeroResponse
  /\ parseIn \in {i \in ParseInputs : WellFormed(i.lines, i.terminated)}
  /\ parsed = IdleParsed
  /\ LockIdle

\* parseOutput(result, err, resp, req) on a fresh response
ParseOutput ==
  /\ ~parsed.done
  /\ LET out == parseOutput(parseIn.result, parseIn.err, ZeroResponse)
     IN parsed' = [done |-> TRUE, resp |-> out.resp, logs |-> out.logs]
  /\ UNCHANGED <<execIn, response, parseIn, published>>
  /\ UNCHANGED lockVars
  /\ UNCHANGED relayVars

NextParse == ParseOutput

SpecParse == InitParse /\ [][NextParse]_vars

-----------------------------------------------------------------------------
(* The specification of executeCommand: a worker of a running Relay takes  *)
(* one execution request                                                   *)

\* what a command prints in the runs of executeCommand
ExecLineChoices ==
  { [marker |-> FALSE, text |-> TxtA],
    [marker |-> TRUE, text |-> PfxTemplate \o <<SP, "t">>],
    [marker |-> TRUE, text |-> TxtJSON] }

EngineResults ==
  { [lines |-> ls, result |-> [Stdout |-> StdoutOf(ls, t), Stderr |-> se]] :
    ls \in SeqsUpTo(ExecLineChoices, MaxLines),
    t \in {TRUE}, se \in Stderrs }

\* the engine of a request: its constructor fails, Execute fails, or Execute
\* returns what the command printed
EngineRuns ==
  {[newErr |-> ErrorOf(<<"no engine">>), err |-> NoError, lines |-> <<>>,
    result |-> [Stdout |-> <<>>, Stderr |-> <<>>]]}
  \cup
  {[newErr |-> NoError, err |-> ErrorOf(<<"exit status 1">>), lines |-> <<>>,
    result |-> [Stdout |-> <<>>, Stderr |-> <<>>]]}
  \cup
  {[newErr |-> NoError, err |-> NoError, lines |-> r.lines, result |-> r.result] :
     r \in EngineResults}
NoRun ==
  [newErr |-> NoError, err |-> NoError, lines |-> <<>>,
   result |-> [Stdout |-> <<>>, Stderr |-> <<>>]]

\* payloads: not JSON, or JSON with some of the fields
FieldSets ==
  { [k \in ks |-> IF k = "reply_to" THEN "r1" ELSE b] :
    ks \in SUBSET {"bundle_name", "reply_to"}, b \in {"echo", "dock", "ghost"} }
Payloads ==
  {[json |-> FALSE, fields |-> MapOf({})]} \cup {[json |-> TRUE, fields |-> f] : f \in FieldSets}

\* the engine is looked at only for a payload that names a bundle
ExecInputs ==
  { [stage |-> "queued", payload |-> p, eng |-> e] :
    p \in Payloads,
    e \in EngineRuns \cup {NoRun} }

Relevant(i) ==
  IF i.payload.json /\ Field(i.payload.fields, "bundle_name") \in BundleNameSet
  THEN i.eng # NoRun
  ELSE i.eng = NoRun

\* a Relay that is Ready after its first refresh, which stored the map m
Running(m) ==
  /\ state = "Ready"
  /\ control = <<>>
  /\ LET cat == UpdateBundleList(NewCatalog, m)
     IN /\ bundles = cat.bundles
        /\ bundlesHash = cat.bundlesHash
  /\ announce = FALSE
  /\ hasStarted = TRUE
  /\ bus = "connected"
  /\ queue = [open |-> TRUE, items |-> 0]
  /\ coordinator = 1
  /\ workers = [idle |-> WorkerCount, send |-> 0]
  /\ refreshTimer = "pending"
  /\ timers = [orphans |-> 0, running |-> 0]
  /\ mainPc = "running"
  /\ loopPc = "recv"
  /\ published = <<>>
  /\ hist = [lastKeys |-> DOMAIN m, changed |-> FALSE,
             lastCmd |-> "UpdateBundlesDone", lastState |-> "UpdatingBundles",
             stopNoop |-> "none"]
  /\ env = [disconnects |-> 0, updates |-> 0, stops |-> 0, notifying |-> 0,
            lostIn |-> "none", maps |-> BundleMaps]

InitExec ==
  /\ \E m \in BundleMaps : Running(m)
  /\ execIn \in {i \in ExecInputs : Relevant(i)}
  /\ response = ZeroResponse
  /\ parseIn = IdleParse
  /\ parsed = IdleParsed
  /\ LockIdle

\* executeCommand(incoming), run by a worker on the payload it dequeued
ExecuteCommand ==
  /\ execIn.stage = "queued"
  /\ workers.idle > 0
  /\ LET out == executeCommand(execIn.payload, bundles, execIn.eng)
     IN /\ response' = out.response
        /\ IF out.publish
           THEN /\ bus # "nil"
                /\ Publish(Message(out.topic, {}, out.response))
           ELSE published' = published
  /\ execIn' = [execIn EXCEPT !.stage = "done"]
  /\ UNCHANGED <<parseIn, parsed>>
  /\ UNCHANGED lockVars
  /\ UNCHANGED relayVars

NextExec == ExecuteCommand \/ ControllerTake

SpecExec == InitExec /\ [][NextExec]_vars

-----------------------------------------------------------------------------
(* relay/relay.go: the catalog methods under r.bundleLock                  *)

\* calls of UpdateBundleList and calls of the two readers
MaxReplaces == 2
MaxReads == 2

\* Lock() returns once no goroutine holds the lock
CanLock(l) == ~l.writer /\ l.readers = 0
\* an RLock() that does not wait for the writer
CanRLockAnyway(l) == l.readers >= 0
\* RLock() returns once no writer holds the lock
CanRLock(l) == ~l.writer

\* what the lock-guarded steps leave alone
lockFrame == <<state, control, hasStarted, bus, queue, coordinator, workers,
               refreshTimer, timers, mainPc, loopPc, env, published, hist,
               execIn, response, parseIn, parsed>>
catalogVars == <<bundles, bundlesHash, announce>>

\* a Relay whose catalog is read and replaced by concurrent callers: the one
\* New() built, or one that is Ready after its first refresh
InitReaders ==
  /\ \/ /\ New
        /\ mainPc = "new"
        /\ env = [disconnects |-> 0, updates |-> 0, stops |-> 0, notifying |-> 0,
                  lostIn |-> "none", maps |-> BundleMaps]
     \/ \E m \in BundleMaps : Running(m)
  /\ execIn = IdleExec
  /\ response = ZeroResponse
  /\ parseIn = IdleParse
  /\ parsed = IdleParsed
  /\ bundleLock = UnlockedRWMutex
  /\ writer = [IdleWriter EXCEPT !.left = MaxReplaces]
  /\ reader = [IdleReader EXCEPT !.left = MaxReads]
  /\ catalogs = {bundles}

\* UpdateBundleList, line 145: r.bundleLock.Lock()
UpdateBundleListLock ==
  /\ ~Crashed
  /\ reader.pc # "panicked"
  /\ writer.pc = "idle"
  /\ writer.left > 0
  /\ CanLock(bundleLock)
  /\ \E m \in BundleMaps :
       writer' = [pc |-> "locked", arg |-> m, left |-> writer.left - 1]
  /\ bundleLock' = [bundleLock EXCEPT !.writer = TRUE]
  /\ UNCHANGED <<reader, catalogs, catalogVars, lockFrame>>

\* UpdateBundleList, lines 147-152: the hash comparison and the three stores
UpdateBundleListStore ==
  /\ ~Crashed
  /\ reader.pc # "panicked"
  /\ writer.pc = "locked"
  /\ LET cat == UpdateBundleList(Catalog, writer.arg)
     IN /\ bundles' = cat.bundles
        /\ bundlesHash' = cat.bundlesHash
        /\ announce' = cat.announce
        /\ catalogs' = catalogs \cup {cat.bundles}
  /\ writer' = [writer EXCEPT !.pc = "stored"]
  /\ UNCHANGED <<bundleLock, reader, lockFrame>>

\* UpdateBundleList, line 146: the deferred r.bundleLock.Unlock()
UpdateBundleListUnlock ==
  /\ ~Crashed
  /\ reader.pc # "panicked"
  /\ writer.pc = "stored"
  /\ bundleLock' = [bundleLock EXCEPT !.writer = FALSE]
  /\ writer' = [writer EXCEPT !.pc = "idle"]
  /\ UNCHANGED <<reader, catalogs, catalogVars, lockFrame>>

\* BundleNames, line 157: r.bundleLock.RLock()
BundleNamesRLock ==
  /\ ~Crashed
  /\ reader.pc \in {"idle", "namesDone", "getDone"}
  /\ reader.left > 0
  /\ CanRLock(bundleLock)
  /\ bundleLock' = [bundleLock EXCEPT !.readers = @ + 1]
  /\ reader' = [pc |-> "namesLocked", name |-> "", count |-> 0,
                result |-> NoResult, left |-> reader.left - 1]
  /\ UNCHANGED <<writer, catalogs, catalogVars, lockFrame>>

\* BundleNames, lines 159-160: bundleCount := len(r.bundles) and the slice of
\* that many empty strings
BundleNamesCount ==
  /\ ~Crashed
  /\ reader.pc = "namesLocked"
  /\ reader' = [reader EXCEPT !.pc = "namesCounted",
                              !.count = Cardinality(DOMAIN bundles)]
  /\ UNCHANGED <<bundleLock, writer, catalogs, catalogVars, lockFrame>>

\* BundleNames, lines 161-165: the range over r.bundles fills the slice; a key
\* beyond bundleCount is an index out of range, slots never written stay ""
BundleNamesRange ==
  /\ ~Crashed
  /\ reader.pc = "namesCounted"
  /\ LET keys == DOMAIN bundles
     IN IF Cardinality(keys) > reader.count
        THEN /\ reader' = [reader EXCEPT !.pc = "panicked"]
             /\ bundleLock' = [bundleLock EXCEPT !.readers = @ - 1]
        ELSE /\ reader' = [reader EXCEPT
                             !.pc = "namesCopied",
                             !.result = [NoResult EXCEPT
                                           !.keys = keys,
                                           !.blanks = reader.count - Cardinality(keys)]]
             /\ bundleLock' = bundleLock
  /\ UNCHANGED <<writer, catalogs, catalogVars, lockFrame>>

\* BundleNames, lines 158 and 166: the deferred RUnlock and the return
BundleNamesReturn ==
  /\ ~Crashed
  /\ reader.pc = "namesCopied"
  /\ bundleLock' = [bundleLock EXCEPT !.readers = @ - 1]
  /\ reader' = [reader EXCEPT !.pc = "namesDone"]
  /\ UNCHANGED <<writer, catalogs, catalogVars, lockFrame>>

\* GetBundle, line 137: r.bundleLock.RLock()
GetBundleRLock ==
  /\ ~Crashed
  /\ reader.pc \in {"idle", "namesDone", "getDone"}
  /\ reader.left > 0
  /\ CanRLock(bundleLock)
  /\ bundleLock' = [bundleLock EXCEPT !.readers = @ + 1]
  /\ \E n \in BundleNameSet :
       reader' = [pc |-> "getLocked", name |-> n, count |-> 0,
                  result |-> NoResult, left |-> reader.left - 1]
  /\ UNCHANGED <<writer, catalogs, catalogVars, lockFrame>>

\* GetBundle, line 139: r.bundles[name]
GetBundleRead ==
  /\ ~Crashed
  /\ reader.pc = "getLocked"
  /\ reader' = [reader EXCEPT
                  !.pc = "getRead",
                  !.result = [NoResult EXCEPT !.bundle = GetBundle(bundles, reader.name)]]
  /\ UNCHANGED <<bundleLock, writer, catalogs, catalogVars, lockFrame>>

\* GetBundle, lines 138-139: the deferred RUnlock and the return
GetBundleReturn ==
  /\ ~Crashed
  /\ reader.pc = "getRead"
  /\ bundleLock' = [bundleLock EXCEPT !.readers = @ - 1]
  /\ reader' = [reader EXCEPT !.pc = "getDone"]
  /\ UNCHANGED <<writer, catalogs, catalogVars, lockFrame>>

WriterNext == UpdateBundleListLock \/ UpdateBundleListStore \/ UpdateBundleListUnlock
ReaderNext ==
  \/ BundleNamesRLock \/ BundleNamesCount \/ BundleNamesRange \/ BundleNamesReturn
  \/ GetBundleRLock \/ GetBundleRead \/ GetBundleReturn

NextReaders == WriterNext \/ ReaderNext

SpecReaders == InitReaders /\ [][NextReaders]_vars

-----------------------------------------------------------------------------
(* Properties of executeCommand and parseOutput                            *)

\* the texts of the lines that carry no marker, in their order
RECURSIVE NonMarkerTexts(_)
NonMarkerTexts(ls) ==
  IF ls = <<>> THEN <<>>
  ELSE (IF Head(ls).marker THEN <<>> ELSE <<Head(ls).text>>) \o NonMarkerTexts(Tail(ls))

HasJSONMarker(ls) == \E i \in 1..Len(ls) : ls[i].text = TxtJSON
HasNonMarker(ls) == \E i \in 1..Len(ls) : ~ls[i].marker

\* the body [{"body": lines}]
ListBody(lines) == [tag |-> "list", lines |-> lines, text |-> <<>>]

\* the step in which the worker runs executeCommand
ExecStep == execIn.stage = "queued" /\ execIn'.stage = "done"

ExecRequestName == Field(execIn.payload.fields, "bundle_name")
ExecReplyTo == Field(execIn.payload.fields, "reply_to")
ExecSucceeds ==
  /\ execIn.payload.json
  /\ ExecRequestName \in DOMAIN bundles
  /\ execIn.eng.newErr.nil
  /\ execIn.eng.err.nil
  /\ execIn.eng.result.Stderr = <<>>

\* the status and message the request's branch calls for
ExpectedStatus == IF ExecSucceeds THEN <<"ok">> ELSE <<"error">>
ExpectedMessage ==
  IF ExecRequestName \notin DOMAIN bundles
  THEN <<"Unknown command bundle ", ExecRequestName>>
  ELSE IF ~execIn.eng.newErr.nil THEN execIn.eng.newErr.msg
  ELSE IF ~execIn.eng.err.nil THEN execIn.eng.err.msg
  ELSE execIn.eng.result.Stderr

\* C7: every execution request that decodes results in exactly one response
\* published on its replyTo topic, in every branch: an unknown bundle (status
\* error, message "Unknown command bundle <name>"), a failed engine
\* constructor, a failed execution, stderr present (status error with the
\* branch's message), or success (status ok); and nothing else is published
\* for the request afterwards.
C7_OneResponseOnReplyTo ==
  [][ /\ (ExecStep /\ execIn.payload.json) =>
           /\ published' = Append(published, Message(ExecReplyTo, {}, response'))
           /\ response'.Status = ExpectedStatus
           /\ response'.StatusMessage = ExpectedMessage
      /\ (execIn.stage = "done") => Len(published') <= Len(published)
    ]_vars

C7_Witness ==
  /\ execIn.stage = "done"
  /\ execIn.payload.json
  /\ ExecRequestName = "ghost"
  /\ published = <<Message("r1", {}, response)>>
  /\ response.Status = <<"error">>
  /\ response.StatusMessage = <<"Unknown command bundle ", "ghost">>

\* C8: a successful execution (known bundle, no engine error, empty stderr)
\* whose stdout has a non-marker line and no JSON marker publishes status ok
\* and the body [{"body": retained lines}], the response of parseOutput.
C8_PublishedBodyIsParsed ==
  ( /\ execIn.stage = "done"
    /\ ExecSucceeds
    /\ HasNonMarker(execIn.eng.lines)
    /\ ~HasJSONMarker(execIn.eng.lines) ) =>
      /\ response.Status = <<"ok">>
      /\ response.Body = ListBody(NonMarkerTexts(execIn.eng.lines))
      /\ response = parseOutput(execIn.eng.result, execIn.eng.err, ZeroResponse).resp

\* C9: when the engine returns stderr that is not empty, the response is
\* exactly {status: error, statusMessage: stderr}, with no body, no template
\* and no isJSON flag, whatever stdout held.
C9_StderrResponseExact ==
  (parsed.done /\ parseIn.err.nil /\ parseIn.result.Stderr # <<>>) =>
     parsed.resp = [ZeroResponse EXCEPT !.Status = <<"error">>,
                                        !.StatusMessage = parseIn.result.Stderr]

\* C10: for a stdout of marker and non-marker lines, with empty stderr and no
\* JSON marker, the retained lines of the response body are exactly the
\* non-marker lines, in their order, each once; a stdout without a non-marker
\* line gives no body.
C10_RetainedAreNonMarkerLines ==
  ( /\ parsed.done
    /\ parseIn.err.nil
    /\ parseIn.result.Stderr = <<>>
    /\ ~HasJSONMarker(parseIn.lines) ) =>
      /\ parsed.resp.Status = <<"ok">>
      /\ parsed.resp.Body =
           IF HasNonMarker(parseIn.lines)
           THEN ListBody(NonMarkerTexts(parseIn.lines))
           ELSE NilBody

C10_Witness ==
  /\ parsed.done
  /\ parseIn.err.nil
  /\ parseIn.result.Stderr = <<>>
  /\ ~HasJSONMarker(parseIn.lines)
  /\ Len(parseIn.lines) = MaxLines
  /\ parseIn.lines[1].marker
  /\ ~parseIn.lines[MaxLines].marker
  /\ parsed.resp.Body = ListBody(<<parseIn.lines[MaxLines].text>>)

-----------------------------------------------------------------------------
(* Properties of the supervisor                                            *)


\* C3: once the Relay has been started, a call to Stop eventually returns
\* with the state Stopped, under fair scheduling, whatever timer fires,
\* UpdateBundles calls, disconnect notifications and Restart it meets.
C3_StopReturns ==
  (mainPc = "stopSend")
    ~> (mainPc = "stopped" /\ state = "Stopped")

\* C6: after a disconnect notification in the state Ready, the Relay
\* eventually handles the Restart, goes through Starting and enters
\* UpdatingBundles (Refreshing) from it having published ListBundles, unless
\* Stop is called meanwhile.
C6_DisconnectRecovers ==
  (env.notifying > 0 /\ env.lostIn = "Ready" /\ mainPc = "running")
    ~> \/ /\ state = "UpdatingBundles"
          /\ hist.lastCmd = "UpdateBundles"
          /\ hist.lastState = "Starting"
       \/ mainPc # "running"

\* the loop takes RelayUpdateBundlesDone from r.control
DoneStep ==
  /\ loopPc = "recv"
  /\ control # <<>> /\ Head(control) = "UpdateBundlesDone"
  /\ control' = Tail(control)

\* a worker takes a bundle-list reply, calls UpdateBundleList and then
\* FinishedUpdateBundles
ApplyStep == queue.items > 0 /\ queue' = [queue EXCEPT !.items = @ - 1]

WorkersRunning == workers.idle + workers.send

\* C1: when RelayUpdateBundlesDone is processed in UpdatingBundles after some
\* UpdateBundleList calls, an announcement is published iff one of those calls
\* changed the name set since the last announcement, and the announce flag is
\* false afterwards.
C1_AnnouncedIffNamesChanged ==
  [][ (DoneStep /\ state = "UpdatingBundles") =>
        /\ (published' # published) <=> hist.changed
        /\ (published' # published) =>
             published' = Append(published, Announcement(hist.lastKeys))
        /\ announce' = FALSE
    ]_vars

\* C2: UpdateBundleList(M) replaces the stored map and hash and sets the
\* announce flag iff the key set of M differs from the key set of the
\* catalog, and is a no-op otherwise; afterwards BundleNames and GetBundle
\* reflect the key set of the most recent call.
C2_ReplacedIffKeysDiffer ==
  [][ ApplyStep =>
        /\ IF hist'.lastKeys # DOMAIN bundles
           THEN /\ bundlesHash' # bundlesHash
                /\ announce'
           ELSE UNCHANGED <<bundles, bundlesHash, announce>>
        /\ BundleNames(bundles') = hist'.lastKeys
        /\ \A n \in BundleNameSet :
             GetBundle(bundles', n).nil <=> n \notin hist'.lastKeys
    ]_vars

\* C4: with MaxConcurrent = k, exactly k+2 workers run after Start and after
\* each completed Restart, and when Stop has returned with the state Stopped
\* no worker runs and the link is halted.
C4_WorkersFollowLifecycle ==
  /\ (mainPc = "running" /\ loopPc = "recv") => WorkersRunning = MaxConcurrent + 2
  /\ (mainPc = "stopped" /\ state = "Stopped") =>
       (WorkersRunning = 0 /\ bus # "connected")

\* C5: RelayUpdateBundlesDone processed in a state other than UpdatingBundles
\* leaves the state, the catalog, the announce flag and hasStarted as they
\* were and publishes nothing; FinishedUpdateBundles called in such a state
\* sends nothing and changes no state.
C5_DoneOutsideRefreshIsInert ==
  [][ /\ (DoneStep /\ state # "UpdatingBundles") =>
           /\ state' = state
           /\ <<bundles, bundlesHash, announce>>' = <<bundles, bundlesHash, announce>>
           /\ hasStarted' = hasStarted
           /\ published' = published
      /\ (ApplyStep /\ state # "UpdatingBundles") =>
           /\ control' = control
           /\ workers' = workers
           /\ state' = state
           /\ published' = published
    ]_vars

C5_Witness ==
  /\ hist.lastCmd = "UpdateBundlesDone"
  /\ hist.lastState = "Ready"
  /\ state = "Ready"

\* Start(worker) is called and returns
StartStep == mainPc = "new" /\ mainPc' = "running"

\* C12: when the connection to the broker fails during Start, Start keeps no
\* side effect: the state is still Stopped, no worker runs and no
\* supervisor loop has been started.
C12_FailedStartHasNoEffect ==
  [][ (StartStep /\ bus' # "connected") =>
        /\ state' = "Stopped"
        /\ WorkersRunning' = 0
        /\ loopPc' = "none"
    ]_vars

\* a step of handleRestartCommand
RestartStep ==
  \/ loopPc = "recv" /\ loopPc' = "restartRearm"
  \/ loopPc = "restartRearm" /\ loopPc' = "restartSend"
  \/ loopPc = "restartSend" /\ loopPc' = "recv"

\* C13: processing RelayRestart leaves the catalog (map and hash) as it was,
\* and so does every step that is not a call of UpdateBundleList: GetBundle
\* and BundleNames keep their answers from the disconnect to the next
\* UpdateBundleList.
C13_RestartKeepsCatalog ==
  [][ /\ RestartStep => <<bundles, bundlesHash>>' = <<bundles, bundlesHash>>
      /\ ~ApplyStep =>
           /\ BundleNames(bundles') = BundleNames(bundles)
           /\ \A n \in BundleNameSet : GetBundle(bundles', n) = GetBundle(bundles, n)
    ]_vars

C13_Witness ==
  /\ hist.lastCmd = "Restart"
  /\ loopPc = "recv"
  /\ state = "Starting"
  /\ env.lostIn = "Ready"
  /\ BundleNames(bundles) = {"echo"}
  /\ bundlesHash = fnvNew64

\* C15: every change of r.state is made by a step of the supervisor loop; no
\* caller of Start, Stop, UpdateBundles or FinishedUpdateBundles, no timer
\* callback and no worker writes it.
C15_OnlyLoopWritesState ==
  [][ state' # state => (mainPc' = mainPc /\ loopPc \in {"recv", "restartRearm"}) ]_vars

PendingTimers == (IF refreshTimer = "pending" THEN 1 ELSE 0) + timers.orphans

\* C16: Stop and Restart tear down the timers armed before them: at most one
\* refresh timer is pending at any time, none is pending once the loop has
\* handled a Restart's teardown, and none is pending or armed again once
\* Stop has returned with the state Stopped.
C16_TimersTornDown ==
  /\ PendingTimers <= 1
  /\ (hist.lastCmd = "Restart" /\ loopPc = "restartRearm") => PendingTimers = 0
  /\ (mainPc = "stopped" /\ state = "Stopped") => PendingTimers = 0

\* a valid ExecutionRequest: it decodes, and bundleName and replyTo are not empty
ValidRequest ==
  execIn.payload.json /\ ExecRequestName # "" /\ ExecReplyTo # ""

\* C17: an execution payload that is not a valid ExecutionRequest is dropped:
\* nothing is published for it.
C17_InvalidPayloadDropped ==
  [][ (ExecStep /\ ~ValidRequest) => published' = published ]_vars

RefreshStep ==
  /\ loopPc = "recv"
  /\ control # <<>> /\ Head(control) = "UpdateBundles"
  /\ control' = Tail(control)

\* C19: the state becomes Ready only by the loop processing
\* RelayUpdateBundlesDone in UpdatingBundles, never from Stopped, Starting or
\* a Restart; and RelayUpdateBundles processed in Ready takes the state to
\* UpdatingBundles.
C19_ReadyOnlyAfterRefresh ==
  [][ /\ (state' = "Ready" /\ state # "Ready") =>
           (DoneStep /\ state = "UpdatingBundles")
      /\ (RefreshStep /\ state = "Ready") => state' = "UpdatingBundles"
    ]_vars

C19_Witness ==
  /\ hist.lastCmd = "UpdateBundles"
  /\ hist.lastState = "Ready"
  /\ state = "UpdatingBundles"
  /\ hasStarted

\* C20: the supervisor loop never blocks forever: its own send of
\* RelayUpdateBundles at the end of a Restart eventually completes, whatever
\* timer fires, UpdateBundles calls and notifications fill the channel.
C20_RestartSendCompletes ==
  (loopPc = "restartSend") ~> (loopPc = "recv")

\* Stop() is called
StopCall == env'.stops = env.stops - 1

\* C14: Stop called while the state is Stopped is a no-op: it sends nothing on
\* the control channel, does not touch the link, the work queue or the
\* timers, and leaves the state Stopped; so a second Stop after a Stop that
\* returned changes nothing.
C14_StopInStoppedIsNoOp ==
  [][ (StopCall /\ state = "Stopped") =>
        /\ state' = "Stopped"
        /\ control' = control
        /\ <<bus, queue, refreshTimer, timers>>' = <<bus, queue, refreshTimer, timers>>
        /\ <<mainPc, loopPc, coordinator, workers>>' = <<mainPc, loopPc, coordinator, workers>>
        /\ <<bundles, bundlesHash, announce, hasStarted, published>>' =
             <<bundles, bundlesHash, announce, hasStarted, published>>
    ]_vars

C14_Witness ==
  /\ hist.stopNoop = "stopped"
  /\ env.stops = 0
  /\ mainPc = "stopped"
  /\ state = "Stopped"
  /\ loopPc = "done"

\* C11: however calls of UpdateBundleList interleave with calls of GetBundle
\* and BundleNames, a BundleNames result is the complete key set of one map
\* that was the catalog, with no slot left empty and no index out of range,
\* and a GetBundle result is the entry of such a map; while the reader holds
\* the lock that map is the current catalog.
C11_ReadersSeeOneCatalog ==
  /\ reader.pc # "panicked"
  /\ reader.pc \in {"namesCopied", "namesDone"} =>
       /\ reader.result.blanks = 0
       /\ \E m \in catalogs : reader.result.keys = BundleNames(m)
  /\ reader.pc = "namesCopied" => reader.result.keys = BundleNames(bundles)
  /\ reader.pc \in {"getRead", "getDone"} =>
       \E m \in catalogs : reader.result.bundle = GetBundle(m, reader.name)
  /\ reader.pc = "getRead" => reader.result.bundle = GetBundle(bundles, reader.name)
  /\ ~(bundleLock.writer /\ bundleLock.readers > 0)

\* a BundleNames call that waited for a replacement of the initial map and
\* returned the keys of the new one
C11_Witness ==
  /\ reader.pc = "namesDone"
  /\ reader.result.keys = {"dock", "echo"}
  /\ MapOf({}) \in catalogs
  /\ writer.left < MaxReplaces

====
